---- MODULE Spec2Model ----
(***************************************************************************)
(* MineBloom (src/mainbloom.py): the User session with its journal store   *)
(* and the per-user JSON file it is loaded from and saved to; the window   *)
(* with its screens and their handlers; the recent-action stack and the    *)
(* affirmation providers.                                                  *)
(*                                                                         *)
(* Text is a sequence of characters.  A date-time is a number of clock     *)
(* ticks (the smallest unit, "microsecond"); day, minute, second and       *)
(* microsecond are its mixed-radix digits.  An ISO-8601 string is the      *)
(* sequence of the numeric fields it prints.                               *)
(***************************************************************************)
EXTENDS Integers, Sequences, FiniteSets, TLC

VARIABLES
    files,          \* file name (the sanitized display name) -> file content
    current_user,   \* MineBloomApp.current_user: None or a User
    now,            \* the wall clock, datetime.datetime.now()
    io,             \* outcome of the most recent file operation
    raised,         \* TRUE iff the most recent call raised to its caller
    call,           \* the most recent call on the User and its arguments/result
    caller_list,    \* the list object a caller got from get_journal_entries()
    last_saved,     \* history: per file, what its last successful write held
    sessions,       \* the number of logins so far
    screen,         \* the screen the window shows
    stack,          \* MineBloomApp.stack._stack, the recent-action stack
    affirmations,   \* MineBloomApp.affirmations, the list both providers hold
    scan,           \* the variables of an open relationship scan
    red_flag        \* the variables of an open red-flag check

vars == <<files, current_user, now, io, raised, call, caller_list, last_saved, sessions,
          screen, stack, affirmations, scan, red_flag>>

\* the state of the window and of the objects behind it
uiVars == <<screen, stack, affirmations, scan, red_flag>>

-----------------------------------------------------------------------------
(* Bounds *)

MaxEntries == 2      \* appends are modelled while the store is shorter than this
MaxDay     == 1      \* calendar days 0..MaxDay
ClockStart == 9      \* the clock's value when the model starts
MaxSessions == 2     \* logins are modelled up to this many
MaxClock   == 10     \* the clock stops ticking here
MaxStack   == 3      \* pushes are modelled while the stack is shorter than this
MaxScanStart == 0    \* a scan is opened while the store holds at most this many

-----------------------------------------------------------------------------
(* Text *)

Space == " "

RECURSIVE lstrip(_)
lstrip(s) == IF s # <<>> /\ Head(s) = Space THEN lstrip(Tail(s)) ELSE s

RECURSIVE rstrip(_)
rstrip(s) ==
    IF s # <<>> /\ s[Len(s)] = Space THEN rstrip(SubSeq(s, 1, Len(s) - 1)) ELSE s

strip(s) == rstrip(lstrip(s))

RECURSIVE Filter(_, _)
Filter(s, keep) ==
    IF s = <<>> THEN <<>>
    ELSE IF Head(s) \in keep THEN <<Head(s)>> \o Filter(Tail(s), keep)
         ELSE Filter(Tail(s), keep)

Alnum == {"a", "b", "A"}

\* c.isalnum() or c in (' ','.','_')
SafeChars == Alnum \cup {" ", ".", "_"}

safe_name(username) == rstrip(Filter(username, SafeChars))

RECURSIVE lower(_)
lower(s) ==
    IF s = <<>> THEN <<>>
    ELSE <<IF Head(s) = "A" THEN "a" ELSE Head(s)>> \o lower(Tail(s))

\* The placeholder texts of the two login fields, each as one unit of text.
UsernamePlaceholder == <<"Masukkan nama kamu...">>
PartnerPlaceholder  == <<"Nama pasangan (opsional)...">>
FallbackPassword    == <<"mine123">>

-----------------------------------------------------------------------------
(* Date-times *)

UsPerSec  == 2
SecPerMin == 2
MinPerDay == 2

TicksPerMin == UsPerSec * SecPerMin
TicksPerDay == TicksPerMin * MinPerDay

Us(t)  == t % UsPerSec
Sec(t) == (t \div UsPerSec) % SecPerMin
Min(t) == (t \div TicksPerMin) % MinPerDay
Day(t) == t \div TicksPerDay

\* datetime.datetime(y, m, d, h, mi, s, us)
datetime(d, mi, s, us) == d * TicksPerDay + mi * TicksPerMin + s * UsPerSec + us

TruncMinute(t) == t - (t % TicksPerMin)

Days == 0..MaxDay

isoformat_date_only(t) == <<Day(t)>>

\* dt.isoformat(): the microseconds are printed only when they are not zero
isoformat(t) ==
    IF Us(t) = 0 THEN <<Day(t), Min(t), Sec(t)>>
    ELSE <<Day(t), Min(t), Sec(t), Us(t)>>

\* datetime.datetime.fromisoformat(s): date only, date and minute, with
\* seconds, with microseconds; anything else raises.
fromisoformat(s) ==
    LET n == Len(s)
        inRange == /\ n \in 1..4
                   /\ s[1] >= 0
                   /\ n >= 2 => s[2] \in 0..(MinPerDay - 1)
                   /\ n >= 3 => s[3] \in 0..(SecPerMin - 1)
                   /\ n >= 4 => s[4] \in 0..(UsPerSec - 1)
    IN  IF ~inRange THEN [ok |-> FALSE, t |-> 0]
        ELSE [ok |-> TRUE,
              t  |-> datetime(s[1],
                              IF n >= 2 THEN s[2] ELSE 0,
                              IF n >= 3 THEN s[3] ELSE 0,
                              IF n >= 4 THEN s[4] ELSE 0)]

-----------------------------------------------------------------------------
(* The journal file *)

Missing   == [kind |-> "missing"]      \* os.path.exists() is false
Malformed == [kind |-> "malformed"]    \* bytes that are not JSON (also a cut-off write)
Scalar    == [kind |-> "scalar"]       \* JSON, but a number or null: not iterable
JsonList(items) == [kind |-> "list", items |-> items]

NonObject == [nonobj |-> TRUE]         \* a list element that is not an object
IsObject(item) == "nonobj" \notin DOMAIN item

\* item.get('date') / item.get('content', '')
HasDate(item)    == "date" \in DOMAIN item
GetContent(item) == IF "content" \in DOMAIN item THEN item.content ELSE <<>>

None == [none |-> TRUE]

-----------------------------------------------------------------------------
(* class User *)

\* Python's None in the password field: equal to no text a caller can pass.
NonePassword == <<"None">>

\* lines 79-82: the record's timestamp, or the current time when item.get
\* raises, the value is not a string, or fromisoformat rejects it
parse_date(item, nowT) ==
    IF IsObject(item) /\ HasDate(item) /\ fromisoformat(item.date).ok
    THEN fromisoformat(item.date).t
    ELSE nowT

RECURSIVE load_loop_strict(_, _, _)
load_loop_strict(items, acc, nowT) ==
    IF items = <<>> THEN [raised |-> FALSE, entries |-> acc]
    ELSE LET item == Head(items) IN
         IF ~IsObject(item) \/ ~HasDate(item) \/ ~fromisoformat(item.date).ok
         THEN [raised |-> TRUE, entries |-> acc]
         ELSE load_loop_strict(Tail(items),
                        Append(acc, <<parse_date(item, nowT), GetContent(item)>>),
                        nowT)

\* lines 78-83: the for loop; line 83 raises on an element without .get
RECURSIVE load_loop(_, _, _)
load_loop(items, acc, nowT) ==
    IF items = <<>> THEN [raised |-> FALSE, entries |-> acc]
    ELSE LET item == Head(items) IN
         IF ~IsObject(item) THEN [raised |-> TRUE, entries |-> acc]
         ELSE load_loop(Tail(items),
                        Append(acc, <<parse_date(item, nowT), GetContent(item)>>),
                        nowT)

load_journals_partial(file, readOk, nowT) ==
    IF file.kind = "missing" THEN [entries |-> <<>>, raised |-> FALSE]
    ELSE IF ~readOk \/ file.kind # "list" THEN [entries |-> <<>>, raised |-> FALSE]
    ELSE [entries |-> load_loop(file.items, <<>>, nowT).entries, raised |-> FALSE]

\* _load_journals: the entries of the new store, and whether the call raised.
\* open() and json.load() raise on an unreadable file and on bytes that are
\* not JSON, the for statement on a value that is not iterable; the outer
\* except clause empties the list.
load_journals(file, readOk, nowT) ==
    IF file.kind = "missing" THEN [entries |-> <<>>, raised |-> FALSE]
    ELSE IF ~readOk \/ file.kind # "list" THEN [entries |-> <<>>, raised |-> FALSE]
    ELSE LET r == load_loop(file.items, <<>>, nowT) IN
         IF r.raised THEN [entries |-> <<>>, raised |-> FALSE]
         ELSE [entries |-> r.entries, raised |-> FALSE]

\* User.__init__: the new object, and whether the constructor raised
User(username, partner, file, readOk, nowT) ==
    LET loaded == load_journals(file, readOk, nowT) IN
    [user   |-> [username         |-> username,
                 partner          |-> partner,
                 journal_password |-> NonePassword,
                 journal_entries  |-> loaded.entries,
                 journal_file     |-> safe_name(username)],
     raised |-> loaded.raised]

set_journal_password(u, pwd) == [u EXCEPT !.journal_password = pwd]

check_journal_password_nocase(u, pwd) == lower(u.journal_password) = lower(pwd)

check_journal_password(u, pwd) == u.journal_password = pwd

\* lines 45-49: None becomes the current time, a date becomes its midnight
NoDate         == [kind |-> "none"]
DateOnly(d)    == [kind |-> "date", day |-> d]
DateTime(t)    == [kind |-> "datetime", t |-> t]

normalize_date_noon(date, nowT) ==
    IF date.kind = "none" THEN nowT
    ELSE IF date.kind = "date" THEN datetime(date.day, 1, 0, 0)
    ELSE date.t

normalize_date(date, nowT) ==
    IF date.kind = "none" THEN nowT
    ELSE IF date.kind = "date" THEN datetime(date.day, 0, 0, 0)
    ELSE date.t

RECURSIVE dump_data_reversed(_)
dump_data_reversed(entries) ==
    IF entries = <<>> THEN <<>>
    ELSE dump_data_reversed(Tail(entries))
         \o <<[date |-> isoformat(Head(entries)[1]), content |-> Head(entries)[2]]>>

\* lines 62-64: one {date, content} record per entry, in list order
RECURSIVE dump_data(_)
dump_data(entries) ==
    IF entries = <<>> THEN <<>>
    ELSE <<[date |-> isoformat(Head(entries)[1]), content |-> Head(entries)[2]]>>
         \o dump_data(Tail(entries))

save_journals_unless_corrupt(entries, file, outcome) ==
    [file   |-> CASE outcome = "write_ok"    ->
                         IF \/ file.kind = "missing"
                            \/ file.kind = "list"
                               /\ \A i \in 1..Len(file.items) : IsObject(file.items[i])
                         THEN JsonList(dump_data(entries)) ELSE file
                  [] outcome = "open_fails"  -> file
                  [] outcome = "write_fails" -> Malformed,
     raised |-> FALSE]

save_journals_last_only(entries, file, outcome) ==
    [file   |-> CASE outcome = "write_ok"    ->
                         JsonList(dump_data(SubSeq(entries, Len(entries), Len(entries))))
                  [] outcome = "open_fails"  -> file
                  [] outcome = "write_fails" -> Malformed,
     raised |-> FALSE]

\* _save_journals: the file after the call.  open(.., 'w') either fails and
\* leaves the file alone, or truncates it; a failure after that leaves cut-off
\* bytes.  Every exception is swallowed.
save_journals(entries, file, outcome) ==
    [file   |-> CASE outcome = "write_ok"    -> JsonList(dump_data(entries))
                  [] outcome = "open_fails"  -> file
                  [] outcome = "write_fails" -> Malformed,
     raised |-> FALSE]

add_journal_entry_rollback(u, entry, date, nowT, file, outcome) ==
    LET entries == Append(u.journal_entries, <<normalize_date(date, nowT), entry>>)
        saved   == save_journals(entries, file, outcome)
    IN  [user   |-> IF outcome = "write_ok"
                    THEN [u EXCEPT !.journal_entries = entries] ELSE u,
         file   |-> saved.file,
         raised |-> FALSE]

\* add_journal_entry: the append stays whatever the save does, and whatever
\* the save raises is swallowed
add_journal_entry(u, entry, date, nowT, file, outcome) ==
    LET entries == Append(u.journal_entries, <<normalize_date(date, nowT), entry>>)
        saved   == save_journals(entries, file, outcome)
    IN  [user   |-> [u EXCEPT !.journal_entries = entries],
         file   |-> saved.file,
         raised |-> FALSE]

login_password_partner_always(partner) ==
    IF partner # PartnerPlaceholder THEN partner ELSE FallbackPassword

\* do_login, lines 346-349: the journal password of the new session
login_password(partner) ==
    IF partner # <<>> /\ partner # PartnerPlaceholder THEN partner
    ELSE FallbackPassword

get_journal_entries_alias(u) == [ref |-> "store", items |-> u.journal_entries]

\* get_journal_entries: a new list object with the same items
get_journal_entries(u) == [ref |-> "copy", items |-> u.journal_entries]

-----------------------------------------------------------------------------
(* My Passed Journey *)

\* list.sort(key=lambda it: it[0]): stable, ascending by timestamp
RECURSIVE insert_sorted_before_equal(_, _)
insert_sorted_before_equal(sorted, e) ==
    IF sorted = <<>> THEN <<e>>
    ELSE IF sorted[Len(sorted)][1] < e[1] THEN Append(sorted, e)
    ELSE Append(insert_sorted_before_equal(SubSeq(sorted, 1, Len(sorted) - 1), e),
                sorted[Len(sorted)])

RECURSIVE insert_sorted(_, _)
\* list.sort(key=...) is stable: an item goes behind the items not greater
insert_sorted(sorted, e) ==
    IF sorted = <<>> THEN <<e>>
    ELSE IF sorted[Len(sorted)][1] <= e[1] THEN Append(sorted, e)
    ELSE Append(insert_sorted(SubSeq(sorted, 1, Len(sorted) - 1), e),
                sorted[Len(sorted)])

RECURSIVE sort_by_dt(_)
sort_by_dt(l) ==
    IF l = <<>> THEN <<>>
    ELSE insert_sorted(sort_by_dt(SubSeq(l, 1, Len(l) - 1)), l[Len(l)])

\* list(x): a new list object with the items of x
list_copy(l) == [ref |-> "copy", items |-> l.items]

\* line 866: dt.date().isoformat(), the printed date of a timestamp
date_key(t) == <<Day(t)>>

\* the order of two printed dates as strings: the fields are printed with
\* leading zeros, so it is the order of the numbers
key_le(a, b) == a[1] <= b[1]

\* the keys of the groups, ascending or (newest first) descending
RECURSIVE ordered_keys(_, _)
ordered_keys(keys, newest) ==
    IF keys = {} THEN <<>>
    ELSE LET k == IF newest
                  THEN CHOOSE x \in keys : \A y \in keys : key_le(y, x)
                  ELSE CHOOSE x \in keys : \A y \in keys : key_le(x, y)
         IN  <<k>> \o ordered_keys(keys \ {k}, newest)

\* group_by_date, given the sorted local list
groups_of(entries, newest) ==
    LET keys == {date_key(entries[i][1]) : i \in 1..Len(entries)}
        ks   == ordered_keys(keys, newest)
    IN  [j \in 1..Len(ks) |->
            <<ks[j], SelectSeq(entries, LAMBDA e : date_key(e[1]) = ks[j])>>]

-----------------------------------------------------------------------------
(* StackManager, lines 113-129; the last element of _stack is its top *)

push(s, item) == Append(s, item)

pop_oldest(s) ==
    IF s # <<>> THEN [stack |-> Tail(s), result |-> Head(s)]
    ELSE [stack |-> s, result |-> None]

\* the stack after the call, and the value returned
pop(s) ==
    IF s # <<>> THEN [stack |-> SubSeq(s, 1, Len(s) - 1), result |-> s[Len(s)]]
    ELSE [stack |-> s, result |-> None]

peek(s) == IF s # <<>> THEN s[Len(s)] ELSE None

\* list(self._stack): a new list with the elements in the order of _stack
list_all(s) == [i \in 1..Len(s) |-> s[i]]

-----------------------------------------------------------------------------
(* Affirmations *)

NumAffirmations == 20

\* MineBloomApp.affirmations as __init__ builds it
Affirmations == [k \in 1..NumAffirmations |-> <<"affirmation", k>>]

\* date.toordinal(): day 0 of the model is 0001-01-01, the day of ordinal 1;
\* the last day a date can hold is 9999-12-31
toordinal(t) == Day(t) + 1
MaxOrdinal == 3652059

daily_affirmation_by_clock(list, nowT) == list[(nowT % Len(list)) + 1]

\* DailyAffirmationProvider.get_affirmation, lines 99-102 (a Python list
\* counts from 0)
daily_affirmation(list, nowT) == list[(toordinal(nowT) % Len(list)) + 1]

-----------------------------------------------------------------------------
(* Healing journal *)

\* what a dialog or a text box hands to the program: the text typed (None is
\* the answer of a cancelled dialog)
Typed(text) == [text |-> text]

\* _open_healing_journal, lines 727-737: the answer to the password typed
journal_gate(u, pwd) ==
    IF pwd = None THEN "cancelled"
    ELSE IF \/ u.partner = <<>>
            \/ strip(u.partner) = <<>>
            \/ u.partner = PartnerPlaceholder THEN "no_partner"
    ELSE IF pwd.text # u.partner THEN "wrong_password"
    ELSE "open"

\* a spinbox holds a number or something int() refuses
SpinInt(n) == [ok |-> TRUE, n |-> n]
SpinJunk   == [ok |-> FALSE]

\* datetime.datetime(..., h, mi) on the values of the spinboxes, inside the
\* try of save_entry (lines 779-787) and save_mood (lines 496-502): the date
\* boxes are one field, the day, and the hour and minute boxes are one field,
\* the minute of the day; except Exception gives the current time
spin_datetime(day, minute, nowT) ==
    IF /\ day.ok /\ minute.ok
       /\ day.n >= 0
       /\ minute.n \in 0..(MinPerDay - 1)
    THEN datetime(day.n, minute.n, 0, 0)
    ELSE nowT

mood_datetime_midnight(minute, nowT) ==
    IF minute.ok /\ minute.n \in 0..(MinPerDay - 1)
    THEN datetime(Day(nowT), 0, 0, 0)
    ELSE nowT

\* save_mood, lines 496-502: today's date at the time of the spinboxes
mood_datetime(minute, nowT) == spin_datetime(SpinInt(Day(nowT)), minute, nowT)

\* save_mood, lines 506-511: the message for the mood chosen
mood_message(mood) ==
    IF mood >= 4 THEN "sangat baik"
    ELSE IF mood = 3 THEN "yang terbaik"
    ELSE "sudah bertahan"

entry_content_untrimmed(raw) == raw

\* save_entry, line 787: the text of the box, trimmed
entry_content(raw) == strip(raw)

-----------------------------------------------------------------------------
(* Questionnaires *)

RECURSIVE sum(_)
\* sum() of a list of 1s and 0s
sum(answers) == IF answers = <<>> THEN 0 ELSE Head(answers) + sum(Tail(answers))

\* the length of items in _open_red_flag_detector (lines 659-665)
NumRedFlagItems == 5

red_flag_level_two_is_risk(count) ==
    IF count = 0 THEN "Hijau (Aman)"
    ELSE IF count < 2 THEN "Kuning (Waspada)"
    ELSE "Merah (Berisiko)"

\* next_q, lines 704-712: the level shown for the number of yes answers
red_flag_level(count) ==
    IF count = 0 THEN "Hijau (Aman)"
    ELSE IF count <= 2 THEN "Kuning (Waspada)"
    ELSE "Merah (Berisiko)"

\* _open_relationship_scan, lines 538-595: the base list has 49 questions and
\* the scan asks 50; submit_answer, line 614: a batch is 10 answers
NumBaseQuestions == 49
NumQuestions     == 50
BatchSize        == 10

\* the places in base_questions of the questions with the word "pasanganmu"
\* and with the word "pasangan"
WithPasanganmu == {1}
WithPasangan ==
    {2, 4, 5, 7, 9, 10, 11, 13, 14, 15, 16, 19, 21, 23, 24, 25, 27, 28, 29, 31,
     32, 34, 35, 36, 37, 38, 41, 42, 44, 46, 48}

\* base_questions: a question is its place in the list (which stands for its
\* other words) and its word for the partner, if it has one
base_questions ==
    [k \in 1..NumBaseQuestions |->
        [n |-> k,
         word |-> IF k \in WithPasanganmu THEN <<"pasanganmu">>
                  ELSE IF k \in WithPasangan THEN <<"pasangan">>
                  ELSE <<>>]]

\* _sub_partner, lines 301-309: the partner's name in quotes for the word
_sub_partner(u, q) ==
    IF u.partner # <<>> /\ strip(u.partner) # <<>> /\ u.partner # PartnerPlaceholder
    THEN [q EXCEPT !.word = IF @ = <<>> THEN <<>> ELSE <<"'">> \o u.partner \o <<"'">>]
    ELSE q

RECURSIVE build_questions_from_second(_, _, _)
build_questions_from_second(u, questions, i) ==
    IF Len(questions) < NumQuestions
    THEN build_questions_from_second(u,
             Append(questions,
                    _sub_partner(u, base_questions[((i + 1) % Len(base_questions)) + 1])),
             i + 1)
    ELSE questions

RECURSIVE build_questions(_, _, _)
\* the while loop of lines 592-595 (a Python list counts from 0)
build_questions(u, questions, i) ==
    IF Len(questions) < NumQuestions
    THEN build_questions(u,
             Append(questions,
                    _sub_partner(u, base_questions[(i % Len(base_questions)) + 1])),
             i + 1)
    ELSE questions

batch_done_at_end_only(set_count, current_idx, questions) ==
    current_idx >= Len(questions)

\* submit_answer, line 614: the batch is complete
batch_done(set_count, current_idx, questions) ==
    set_count >= BatchSize \/ current_idx >= Len(questions)

RECURSIVE summary_lines(_, _)
\* lines 620-622: zip(qs, set_answers), one line for each pair
summary_lines(qs, answers) ==
    IF qs = <<>> \/ answers = <<>> THEN <<>>
    ELSE <<[q |-> Head(qs), a |-> IF Head(answers) = 1 THEN "Ya" ELSE "Tidak"]>>
         \o summary_lines(Tail(qs), Tail(answers))

scan_content_from_first(questions, current_idx, set_answers) ==
    [title |-> "Relationship Scan",
     score |-> sum(set_answers),
     of    |-> Len(set_answers),
     lines |-> summary_lines(SubSeq(questions, 1, Len(set_answers)), set_answers)]

\* lines 615-623: the journal text of a batch; questions[start_idx:current_idx]
\* is the slice from place start_idx + 1 to place current_idx
scan_content(questions, current_idx, set_answers) ==
    LET start_idx == current_idx - Len(set_answers)
    IN  [title |-> "Relationship Scan",
         score |-> sum(set_answers),
         of    |-> Len(set_answers),
         lines |-> summary_lines(SubSeq(questions, start_idx + 1, current_idx),
                                 set_answers)]

-----------------------------------------------------------------------------
(* Inputs *)

Contents == {<<"x">>, <<"y">>}

SaveOutcomes == {"write_ok", "open_fails", "write_fails"}

\* date arguments of add_journal_entry: none, a date, a date-time
ArgTimes == {datetime(0, 1, 1, 1), datetime(MaxDay, 1, 0, 0)}
DateArgs == {NoDate} \cup {DateOnly(d) : d \in Days} \cup {DateTime(t) : t \in ArgTimes}

\* what is typed into the login form
StoreUsernames == {<<"a">>}
FormUsernames  == {<<>>, <<" ">>, UsernamePlaceholder, <<" ", "a", " ">>, <<"a", " ", "!">>}
FormPartners   == {<<>>, <<" ">>, PartnerPlaceholder, <<"A">>, <<" ", "A", " ">>, <<"a">>}

FileNames == {safe_name(strip(n)) : n \in StoreUsernames}

\* candidates offered to the password check
Candidates == {<<>>, <<"A">>, <<"a">>, FallbackPassword, PartnerPlaceholder}

\* the login form left empty, and partner names for the password dialog
BlankUsernames == {<<>>, <<" ">>, UsernamePlaceholder}
GatePartners   == {<<>>, PartnerPlaceholder, <<" ", "A", " ">>}

\* what the spinboxes of a form hold
SpinDays    == {SpinInt(0), SpinInt(MaxDay), SpinJunk}
SpinMinutes == {SpinInt(1), SpinInt(MinPerDay), SpinJunk}

\* what is typed into the journal's text box
JournalTexts == {<<>>, <<" ">>, <<" ", "x", " ">>, <<"y">>}

\* instants at which an affirmation is asked for: two on each of the first
\* day, the days around one turn of the list, and the last day
DailyDays  == {0, NumAffirmations - 2, NumAffirmations - 1, NumAffirmations, MaxOrdinal - 1}
DailyTimes == {datetime(d, 0, 0, 1) : d \in DailyDays}
                  \cup {datetime(d, MinPerDay - 1, 0, 0) : d \in DailyDays}

\* names typed into the partner field before a scan
ScanPartners == {<<>>, <<"A">>}

\* the answers given to the 10 questions of a batch: all yes, all no, some yes
AnswerPatterns ==
    {<<1, 1, 1, 1, 1, 1, 1, 1, 1, 1>>,
     <<0, 0, 0, 0, 0, 0, 0, 0, 0, 0>>,
     <<1, 1, 0, 1, 0, 0, 0, 0, 0, 0>>}

\* the buttons that continue one of the patterns
PatternAnswers ==
    IF scan = None THEN {}
    ELSE {ans \in BOOLEAN :
            \E pat \in AnswerPatterns :
                SubSeq(pat, 1, Len(scan.set_answers) + 1)
                    = Append(scan.set_answers, IF ans THEN 1 ELSE 0)}

\* the mood chosen and the note typed in the mood tracker
Moods     == {2, 3, 4}
MoodNotes == {<<" ", "x">>}

\* records pushed on the stack
StackItems == {[item |-> "a"], [item |-> "b"], [item |-> "c"]}

\* records a journal file may hold when the program starts
GoodItem     == [date |-> <<0, 1, 0>>, content |-> <<"x">>]
DateOnlyItem == [date |-> <<MaxDay>>, content |-> <<"y">>]
MicroItem    == [date |-> <<0, 1, 1, 1>>, content |-> <<"y">>]
BadDateItem  == [date |-> <<0, MinPerDay>>, content |-> <<"x">>]
NoDateItem   == [content |-> <<"y">>]
NoContentItem == [date |-> <<0, 0>>]

InitFiles ==
    {Missing, Malformed, Scalar, JsonList(<<>>),
     JsonList(<<GoodItem>>), JsonList(<<DateOnlyItem>>), JsonList(<<MicroItem>>),
     JsonList(<<BadDateItem>>), JsonList(<<NoDateItem, GoodItem>>),
     JsonList(<<NoContentItem>>),
     JsonList(<<GoodItem, NonObject>>), JsonList(<<NonObject>>)}

\* files that json.load or the loading loop rejects
CorruptFiles ==
    {Malformed, Scalar, JsonList(<<GoodItem, NonObject>>), JsonList(<<NonObject>>)}

\* files found by a session that opens the Passed Journey
TwinItem == [date |-> <<0, 1, 0>>, content |-> <<"y">>]

JourneyFiles ==
    {Missing, JsonList(<<DateOnlyItem>>), JsonList(<<DateOnlyItem, MicroItem, GoodItem, TwinItem>>)}

-----------------------------------------------------------------------------
(* State *)

NoList == [ref |-> "none", items |-> <<>>]

NoSave == [items |-> <<>>, damaged |-> FALSE]

InitWith(initFiles) ==
    /\ files \in [FileNames -> initFiles]
    /\ current_user = None
    /\ now = ClockStart
    /\ io = "none"
    /\ raised = FALSE
    /\ call = [op |-> "start"]
    /\ caller_list = NoList
    /\ last_saved = [n \in FileNames |-> NoSave]
    /\ sessions = 0
    /\ screen = "login"
    /\ stack = <<>>
    /\ affirmations = Affirmations
    /\ scan = None
    /\ red_flag = None

LoggedIn == current_user # None

\* the store's list and the caller's list are one object when ref = "store"
StoreAfterCallerWrite(items) ==
    IF caller_list.ref = "store"
    THEN [current_user EXCEPT !.journal_entries = items]
    ELSE current_user

CallerAfterStoreWrite(items) ==
    IF caller_list.ref = "store"
    THEN [caller_list EXCEPT !.items = items]
    ELSE caller_list

-----------------------------------------------------------------------------
(* Actions *)

\* the clock advances
Tick ==
    /\ now < MaxClock
    /\ now' = now + 1
    /\ UNCHANGED <<files, current_user, io, raised, call, caller_list, last_saved, sessions>>
    /\ UNCHANGED uiVars

\* do_login (lines 338-350), with User.__init__ and _load_journals.  The login
\* screen is built once, when the process starts.
do_login(rawU, rawP, readOk) ==
    /\ current_user = None
    /\ sessions < MaxSessions
    /\ LET uname   == strip(rawU)
           partner == strip(rawP)
       IN  IF uname = <<>> \/ uname = UsernamePlaceholder
           THEN /\ call' = [op |-> "do_login", username |-> rawU, partner |-> rawP,
                            accepted |-> FALSE]
                /\ raised' = FALSE
                /\ UNCHANGED <<current_user, io, sessions, screen>>
           ELSE LET f == safe_name(uname)
                    r == User(uname, partner, files[f], readOk, now)
                IN  /\ current_user' =
                          IF r.raised THEN None
                          ELSE set_journal_password(r.user, login_password(partner))
                    /\ raised' = r.raised
                    /\ io' = IF files[f].kind = "missing" THEN "absent"
                             ELSE IF readOk THEN "read_ok" ELSE "read_fails"
                    /\ call' = [op |-> "do_login", username |-> rawU,
                                partner |-> rawP, accepted |-> TRUE]
                    /\ sessions' = sessions + 1
                    /\ screen' = IF r.raised THEN screen ELSE "home"
    /\ UNCHANGED <<files, now, caller_list, last_saved>>
    /\ UNCHANGED <<stack, affirmations, scan, red_flag>>

\* User.add_journal_entry(entry, date), called while a user is logged in
AddJournalEntry(entry, date, outcome) ==
    /\ LoggedIn
    /\ Len(current_user.journal_entries) < MaxEntries
    /\ LET f == current_user.journal_file
           r == add_journal_entry(current_user, entry, date, now, files[f], outcome)
       IN  /\ current_user' = r.user
           /\ files' = [files EXCEPT ![f] = r.file]
           /\ raised' = r.raised
           /\ caller_list' = CallerAfterStoreWrite(r.user.journal_entries)
           /\ last_saved' = [last_saved EXCEPT ![f] =
                  CASE outcome = "write_ok"    ->
                           [items |-> r.user.journal_entries, damaged |-> FALSE]
                    [] outcome = "open_fails"  -> @
                    [] outcome = "write_fails" -> [@ EXCEPT !.damaged = TRUE]]
    /\ io' = outcome
    /\ call' = [op |-> "add_journal_entry", entry |-> entry, date |-> date]
    /\ UNCHANGED <<now, sessions>>
    /\ UNCHANGED uiVars

\* a handler of the window calls current_user.add_journal_entry(entry, date)
AppendToStore(entry, date, outcome) ==
    /\ LET f == current_user.journal_file
           r == add_journal_entry(current_user, entry, date, now, files[f], outcome)
       IN  /\ current_user' = r.user
           /\ files' = [files EXCEPT ![f] = r.file]
           /\ raised' = r.raised
           /\ caller_list' = CallerAfterStoreWrite(r.user.journal_entries)
           /\ last_saved' = [last_saved EXCEPT ![f] =
                  CASE outcome = "write_ok"    ->
                           [items |-> r.user.journal_entries, damaged |-> FALSE]
                    [] outcome = "open_fails"  -> @
                    [] outcome = "write_fails" -> [@ EXCEPT !.damaged = TRUE]]
    /\ io' = outcome

\* User.set_journal_password(pwd)
SetJournalPassword(pwd) ==
    /\ LoggedIn
    /\ current_user' = set_journal_password(current_user, pwd)
    /\ call' = [op |-> "set_journal_password", pwd |-> pwd]
    /\ raised' = FALSE
    /\ UNCHANGED <<files, now, io, caller_list, last_saved, sessions>>
    /\ UNCHANGED uiVars

\* User.check_journal_password(pwd)
CheckJournalPassword(pwd) ==
    /\ LoggedIn
    /\ call' = [op |-> "check_journal_password", pwd |-> pwd,
                result |-> check_journal_password(current_user, pwd)]
    /\ raised' = FALSE
    /\ UNCHANGED <<files, current_user, now, io, caller_list, last_saved, sessions>>
    /\ UNCHANGED uiVars

\* a caller takes the list of User.get_journal_entries()
GetJournalEntries ==
    /\ LoggedIn
    /\ caller_list' = get_journal_entries(current_user)
    /\ call' = [op |-> "get_journal_entries"]
    /\ raised' = FALSE
    /\ UNCHANGED <<files, current_user, now, io, last_saved, sessions>>
    /\ UNCHANGED uiVars

\* the caller changes the list it was given
CallerWrites(op, items) ==
    /\ LoggedIn
    /\ caller_list.ref # "none"
    /\ items # caller_list.items
    /\ caller_list' = [caller_list EXCEPT !.items = items]
    /\ current_user' = StoreAfterCallerWrite(items)
    /\ call' = [op |-> op]
    /\ raised' = FALSE
    /\ UNCHANGED <<files, now, io, last_saved, sessions>>
    /\ UNCHANGED uiVars

CallerSort == CallerWrites("caller_sort", sort_by_dt(caller_list.items))

CallerRemove ==
    /\ caller_list.items # <<>>
    /\ CallerWrites("caller_remove", Tail(caller_list.items))

CallerAdd(e) ==
    /\ Len(caller_list.items) < MaxEntries
    /\ CallerWrites("caller_add", Append(caller_list.items, e))

\* _open_passed_journey: draw_entries() runs group_by_date (lines 860-870)
group_by_date(newest) ==
    /\ LoggedIn
    /\ LET entries == list_copy(get_journal_entries(current_user))
           sorted  == sort_by_dt(entries.items)
       IN  /\ call' = [op |-> "group_by_date", newest |-> newest,
                       ordered |-> groups_of(sorted, newest)]
           /\ current_user' = IF entries.ref = "store"
                              THEN [current_user EXCEPT !.journal_entries = sorted]
                              ELSE current_user
           /\ caller_list' = IF entries.ref = "store"
                             THEN CallerAfterStoreWrite(sorted) ELSE caller_list
    /\ raised' = FALSE
    /\ UNCHANGED <<files, now, io, last_saved, sessions>>
    /\ UNCHANGED uiVars

\* time passes between two events of the window
ClockSet(t) ==
    /\ t > now
    /\ now' = t
    /\ UNCHANGED <<files, current_user, io, raised, call, caller_list, last_saved, sessions>>
    /\ UNCHANGED uiVars

\* daily_provider.get_affirmation() (lines 375, 439, 513)
GetDailyAffirmation ==
    /\ call' = [op |-> "get_affirmation", provider |-> "daily",
                today |-> toordinal(now),
                result |-> daily_affirmation(affirmations, now)]
    /\ raised' = FALSE
    /\ UNCHANGED <<files, current_user, now, io, caller_list, last_saved, sessions>>
    /\ UNCHANGED uiVars

\* random_provider.get_affirmation() (lines 108-109): random.choice picks k
GetRandomAffirmation(k) ==
    /\ call' = [op |-> "get_affirmation", provider |-> "random",
                today |-> toordinal(now),
                result |-> affirmations[k]]
    /\ raised' = FALSE
    /\ UNCHANGED <<files, current_user, now, io, caller_list, last_saved, sessions>>
    /\ UNCHANGED uiVars

\* _open_red_flag_detector (lines 653-668): the button of the home screen
_open_red_flag_detector ==
    /\ screen = "home"
    /\ screen' = "red_flag"
    /\ red_flag' = [answers |-> <<>>, idx |-> 0]
    /\ call' = [op |-> "_open_red_flag_detector"]
    /\ raised' = FALSE
    /\ UNCHANGED <<files, current_user, now, io, caller_list, last_saved, sessions>>
    /\ UNCHANGED <<stack, affirmations, scan>>

\* ans_yes (ans = 1) and ans_no (ans = 0) with next_q (lines 689-715)
red_flag_answer(ans) ==
    /\ screen = "red_flag"
    /\ LET answers == Append(red_flag.answers, ans)
           i       == red_flag.idx + 1
       IN  IF i < NumRedFlagItems
           THEN /\ red_flag' = [answers |-> answers, idx |-> i]
                /\ call' = [op |-> "red_flag_answer", ans |-> ans, shown |-> "question"]
                /\ UNCHANGED screen
           ELSE /\ call' = [op |-> "red_flag_answer", ans |-> ans, shown |-> "result",
                            answers |-> answers, count |-> sum(answers),
                            level |-> red_flag_level(sum(answers))]
                /\ screen' = "home"
                /\ red_flag' = None
    /\ raised' = FALSE
    /\ UNCHANGED <<files, current_user, now, io, caller_list, last_saved, sessions>>
    /\ UNCHANGED <<stack, affirmations, scan>>

\* _open_relationship_scan (lines 531-606): the button of the home screen.
\* entries_before is history: the length of the store when the scan opened.
_open_relationship_scan ==
    /\ screen = "home"
    /\ Len(current_user.journal_entries) <= MaxScanStart
    /\ screen' = "scan"
    /\ scan' = [questions   |-> build_questions(current_user, <<>>, 0),
                current_idx |-> 0,
                set_count   |-> 0,
                set_answers |-> <<>>,
                entries_before |-> Len(current_user.journal_entries)]
    /\ call' = [op |-> "_open_relationship_scan"]
    /\ raised' = FALSE
    /\ UNCHANGED <<files, current_user, now, io, caller_list, last_saved, sessions>>
    /\ UNCHANGED <<stack, affirmations, red_flag>>

\* submit_answer (lines 608-641): ans is the button pressed, outcome what the
\* write of the journal file does, more the answer to "Lanjut?" (askyesno)
submit_answer(ans, outcome, more) ==
    /\ screen = "scan"
    /\ LET set_answers == Append(scan.set_answers, IF ans THEN 1 ELSE 0)
           set_count   == scan.set_count + 1
           current_idx == scan.current_idx + 1
           asked       == current_idx < Len(scan.questions)
       IN  IF batch_done(set_count, current_idx, scan.questions)
           THEN /\ AppendToStore(scan_content(scan.questions, current_idx, set_answers),
                                  DateTime(now), outcome)
                /\ call' = [op |-> "submit_answer", ans |-> ans, shown |-> "score",
                            score |-> sum(set_answers), of |-> Len(set_answers),
                            events |-> <<"add_journal_entry", "showinfo">>
                                       \o (IF asked THEN <<"askyesno">> ELSE <<>>)]
                /\ IF asked /\ more
                   THEN /\ scan' = [scan EXCEPT !.current_idx = current_idx,
                                                !.set_count = 0,
                                                !.set_answers = <<>>]
                        /\ UNCHANGED screen
                   ELSE /\ screen' = "home"
                        /\ scan' = None
           ELSE /\ scan' = [scan EXCEPT !.current_idx = current_idx,
                                        !.set_count = set_count,
                                        !.set_answers = set_answers]
                /\ call' = [op |-> "submit_answer", ans |-> ans, shown |-> "question"]
                /\ raised' = FALSE
                /\ UNCHANGED <<files, current_user, io, caller_list, last_saved, screen>>
    /\ UNCHANGED <<now, sessions>>
    /\ UNCHANGED <<stack, affirmations, red_flag>>

\* _open_mood_tracker (lines 451-490): the button of the home screen
_open_mood_tracker ==
    /\ screen = "home"
    /\ screen' = "mood"
    /\ call' = [op |-> "_open_mood_tracker"]
    /\ raised' = FALSE
    /\ UNCHANGED <<files, current_user, now, io, caller_list, last_saved, sessions>>
    /\ UNCHANGED <<stack, affirmations, scan, red_flag>>

\* save_mood (lines 492-523): the "Simpan" button of the mood tracker
save_mood(mood, rawNote, minute, outcome) ==
    /\ screen = "mood"
    /\ Len(stack) < MaxStack
    /\ Len(current_user.journal_entries) < MaxEntries
    /\ LET note     == strip(rawNote)
           entry_dt == mood_datetime(minute, now)
       IN  /\ stack' = push(stack, [date |-> entry_dt, mood |-> mood, note |-> note])
           /\ AppendToStore([title |-> "Mood", mood |-> mood, note |-> note],
                             DateTime(entry_dt), outcome)
           /\ call' = [op |-> "save_mood", mood |-> mood, minute |-> minute,
                       msg |-> mood_message(mood),
                       extra |-> daily_affirmation(affirmations, now)]
    /\ screen' = "home"
    /\ UNCHANGED <<now, sessions>>
    /\ UNCHANGED <<affirmations, scan, red_flag>>

\* _open_affirmation_generator (lines 800-824); no button is bound to it, it
\* is modelled as a method that can be called on the home screen
_open_affirmation_generator ==
    /\ screen = "home"
    /\ screen' = "affirmations"
    /\ call' = [op |-> "_open_affirmation_generator"]
    /\ raised' = FALSE
    /\ UNCHANGED <<files, current_user, now, io, caller_list, last_saved, sessions>>
    /\ UNCHANGED <<stack, affirmations, scan, red_flag>>

\* save_aff (lines 815-819): the label shows the affirmation at place k
save_aff(k) ==
    /\ screen = "affirmations"
    /\ Len(stack) < MaxStack
    /\ stack' = push(stack, [saved_aff |-> affirmations[k], date |-> now])
    /\ call' = [op |-> "save_aff"]
    /\ raised' = FALSE
    /\ UNCHANGED <<files, current_user, now, io, caller_list, last_saved, sessions>>
    /\ UNCHANGED <<screen, affirmations, scan, red_flag>>

\* StackManager.push(item) on MineBloomApp.stack
Push(item) ==
    /\ Len(stack) < MaxStack
    /\ stack' = push(stack, item)
    /\ call' = [op |-> "push", item |-> item]
    /\ raised' = FALSE
    /\ UNCHANGED <<files, current_user, now, io, caller_list, last_saved, sessions>>
    /\ UNCHANGED <<screen, affirmations, scan, red_flag>>

\* StackManager.pop()
Pop ==
    /\ stack' = pop(stack).stack
    /\ call' = [op |-> "pop", result |-> pop(stack).result]
    /\ raised' = FALSE
    /\ UNCHANGED <<files, current_user, now, io, caller_list, last_saved, sessions>>
    /\ UNCHANGED <<screen, affirmations, scan, red_flag>>

\* StackManager.peek()
Peek ==
    /\ call' = [op |-> "peek", result |-> peek(stack)]
    /\ raised' = FALSE
    /\ UNCHANGED <<files, current_user, now, io, caller_list, last_saved, sessions>>
    /\ UNCHANGED uiVars

\* StackManager.list_all()
ListAll ==
    /\ call' = [op |-> "list_all", result |-> list_all(stack)]
    /\ raised' = FALSE
    /\ UNCHANGED <<files, current_user, now, io, caller_list, last_saved, sessions>>
    /\ UNCHANGED uiVars

\* a "Kembali" button, or the end of a handler: _build_home_screen
_build_home_screen ==
    /\ screen \notin {"login", "home"}
    /\ screen' = "home"
    /\ scan' = None
    /\ red_flag' = None
    /\ call' = [op |-> "_build_home_screen"]
    /\ raised' = FALSE
    /\ UNCHANGED <<files, current_user, now, io, caller_list, last_saved, sessions>>
    /\ UNCHANGED <<stack, affirmations>>

\* _open_healing_journal (lines 725-737): the button of the home screen
_open_healing_journal(pwd) ==
    /\ screen = "home"
    /\ LET answer == journal_gate(current_user, pwd)
       IN  /\ call' = [op |-> "_open_healing_journal", pwd |-> pwd, answer |-> answer]
           /\ screen' = IF answer = "open" THEN "journal" ELSE screen
    /\ raised' = FALSE
    /\ UNCHANGED <<files, current_user, now, io, caller_list, last_saved, sessions>>
    /\ UNCHANGED <<stack, affirmations, scan, red_flag>>

\* save_entry (lines 777-794): the "Simpan Entri" button of the journal screen
save_entry(day, minute, raw, outcome) ==
    /\ screen = "journal"
    /\ LET entry_date == spin_datetime(day, minute, now)
           content    == entry_content(raw)
       IN  IF content # <<>>
           THEN /\ Len(current_user.journal_entries) < MaxEntries
                /\ AppendToStore(content, DateTime(entry_date), outcome)
                /\ call' = [op |-> "save_entry", text |-> raw, shown |-> "Tersimpan"]
           ELSE /\ call' = [op |-> "save_entry", text |-> raw, shown |-> "Kosong"]
                /\ raised' = FALSE
                /\ UNCHANGED <<files, current_user, io, caller_list, last_saved>>
    /\ UNCHANGED <<now, sessions>>
    /\ UNCHANGED uiVars

\* the process ends and the next one starts (__init__, lines 137-177); the
\* files stay
Exit ==
    /\ LoggedIn
    /\ current_user' = None
    /\ caller_list' = NoList
    /\ call' = [op |-> "exit"]
    /\ raised' = FALSE
    /\ screen' = "login"
    /\ stack' = <<>>
    /\ affirmations' = Affirmations
    /\ scan' = None
    /\ red_flag' = None
    /\ UNCHANGED <<files, now, io, last_saved, sessions>>

-----------------------------------------------------------------------------
(* Specifications *)

\* One session of the journal store, over every kind of file found at login.
Init == InitWith(InitFiles)

Next ==
    \/ Tick
    \/ \E n \in StoreUsernames, ok \in BOOLEAN : do_login(n, <<>>, ok)
    \/ \E c \in Contents, d \in DateArgs, o \in SaveOutcomes : AddJournalEntry(c, d, o)

Spec == Init /\ [][Next]_vars

\* Several sessions, one after the other, on the same file.
InitSessions == InitWith({Missing, Malformed, JsonList(<<GoodItem>>)})

NextSessions ==
    \/ \E n \in StoreUsernames, ok \in BOOLEAN : do_login(n, <<>>, ok)
    \/ \E c \in Contents, o \in SaveOutcomes : AddJournalEntry(c, NoDate, o)
    \/ Exit

SpecSessions == InitSessions /\ [][NextSessions]_vars

\* A caller that takes the list of entries and changes it.
InitCaller == InitWith({Missing, JsonList(<<MicroItem>>)})

NextCaller ==
    \/ \E n \in StoreUsernames : do_login(n, <<>>, TRUE)
    \/ \E c \in Contents, d \in {NoDate, DateOnly(0)}, o \in {"write_ok", "open_fails"} :
          AddJournalEntry(c, d, o)
    \/ GetJournalEntries
    \/ CallerSort
    \/ CallerRemove
    \/ \E c \in Contents : CallerAdd(<<now, c>>)
    \/ \E newest \in BOOLEAN : group_by_date(newest)

SpecCaller == InitCaller /\ [][NextCaller]_vars

\* The login form and the journal password.
InitLogin == InitWith({Missing})

NextLogin ==
    \/ \E n \in StoreUsernames \cup FormUsernames, p \in FormPartners :
          do_login(n, p, TRUE)
    \/ \E p \in Candidates : SetJournalPassword(p)
    \/ \E p \in Candidates : CheckJournalPassword(p)
    \/ Exit

SpecLogin == InitLogin /\ [][NextLogin]_vars

\* The affirmation providers, asked at several instants of several days.
InitDaily ==
    /\ files \in [FileNames -> {Missing}]
    /\ current_user = None
    /\ now \in DailyTimes
    /\ io = "none"
    /\ raised = FALSE
    /\ call = [op |-> "start"]
    /\ caller_list = NoList
    /\ last_saved = [n \in FileNames |-> NoSave]
    /\ sessions = 0
    /\ screen = "login"
    /\ stack = <<>>
    /\ affirmations = Affirmations
    /\ scan = None
    /\ red_flag = None

NextDaily ==
    \/ \E t \in DailyTimes : ClockSet(t)
    \/ GetDailyAffirmation
    \/ \E k \in 1..NumAffirmations : GetRandomAffirmation(k)

SpecDaily == InitDaily /\ [][NextDaily]_vars

\* The red-flag check.
InitRedFlag == InitWith({Missing})

NextRedFlag ==
    \/ \E n \in StoreUsernames, p \in GatePartners : do_login(n, p, TRUE)
    \/ _open_red_flag_detector
    \/ \E a \in {0, 1} : red_flag_answer(a)
    \/ _build_home_screen

SpecRedFlag == InitRedFlag /\ [][NextRedFlag]_vars

\* The relationship scan.
InitScan == InitWith({Missing})

NextScan ==
    \/ \E n \in StoreUsernames, p \in ScanPartners : do_login(n, p, TRUE)
    \/ _open_relationship_scan
    \/ \E ans \in PatternAnswers, o \in {"write_ok", "open_fails"}, more \in BOOLEAN :
          submit_answer(ans, o, more)
    \/ _build_home_screen

SpecScan == InitScan /\ [][NextScan]_vars

\* The mood tracker and the saved affirmations, which feed the stack.
InitMood == InitWith({Missing})

NextMood ==
    \/ \E n \in StoreUsernames : do_login(n, <<>>, TRUE)
    \/ _open_mood_tracker
    \/ \E mood \in Moods, note \in MoodNotes, m \in SpinMinutes,
           o \in {"write_ok", "open_fails"} : save_mood(mood, note, m, o)
    \/ _open_affirmation_generator
    \/ \E k \in {1, NumAffirmations} : save_aff(k)
    \/ _build_home_screen
    \/ Exit

SpecMood == InitMood /\ [][NextMood]_vars

\* One session that finds a corrupt file at login.
InitDegraded == InitWith(CorruptFiles)

NextDegraded ==
    \/ Tick
    \/ \E n \in StoreUsernames : do_login(n, <<>>, TRUE)
    \/ \E c \in Contents, d \in {NoDate, DateOnly(0)}, o \in SaveOutcomes :
          AddJournalEntry(c, d, o)

SpecDegraded == InitDegraded /\ [][NextDegraded]_vars

\* The Passed Journey view over stores loaded from a file and appended to.
InitJourney == InitWith(JourneyFiles)

NextJourney ==
    \/ \E n \in StoreUsernames : do_login(n, <<>>, TRUE)
    \/ \E c \in Contents, d \in DateArgs : AddJournalEntry(c, d, "write_ok")
    \/ \E newest \in BOOLEAN : group_by_date(newest)

SpecJourney == InitJourney /\ [][NextJourney]_vars

\* The recent-action stack as an object: every call of StackManager.
InitStack == InitWith({Missing})

NextStack ==
    \/ \E x \in StackItems : Push(x)
    \/ Pop
    \/ Peek
    \/ ListAll

SpecStack == InitStack /\ [][NextStack]_vars

\* The login form, the password dialog and the healing-journal screen.
InitJournal == InitWith({Missing})

NextJournal ==
    \/ \E n \in StoreUsernames \cup BlankUsernames, p \in GatePartners :
          do_login(n, p, TRUE)
    \/ \E pwd \in {None} \cup {Typed(c) : c \in Candidates} : _open_healing_journal(pwd)
    \/ \E d \in SpinDays, m \in SpinMinutes, t \in JournalTexts,
           o \in {"write_ok", "open_fails"} : save_entry(d, m, t, o)
    \/ _build_home_screen

SpecJournal == InitJournal /\ [][NextJournal]_vars

-----------------------------------------------------------------------------
(* Properties of the journal store *)

Entries(u) == u.journal_entries
FileOf(u)  == files[u.journal_file]

\* the step is a call of add_journal_entry / a login that built a User
IsAddStep   == LoggedIn /\ current_user' # None /\ call'.op = "add_journal_entry"
                /\ now' = now
IsLoginStep == sessions' = sessions + 1

IsPrefix(a, b) == Len(a) <= Len(b) /\ SubSeq(b, 1, Len(a)) = a

RECURSIVE IsSubseq(_, _)
IsSubseq(a, b) ==
    IF a = <<>> THEN TRUE
    ELSE IF b = <<>> THEN FALSE
    ELSE IF Head(a) = Head(b) THEN IsSubseq(Tail(a), Tail(b))
    ELSE IsSubseq(a, Tail(b))

ContentsOf(entries) == [i \in 1..Len(entries) |-> entries[i][2]]

ToMinute(entries) ==
    [i \in 1..Len(entries) |-> <<TruncMinute(entries[i][1]), entries[i][2]>>]

\* C1: after add_journal_entry(content, at) the list of get_journal_entries()
\* ends with an entry of exactly that content, stamped `at` when `at` is a
\* date-time and midnight of that day when `at` is a date; the entries that
\* were there before are still there, in the same order, before it.
C1_AppendThenList ==
    [][IsAddStep =>
        LET before == get_journal_entries(current_user).items
            after  == get_journal_entries(current_user').items
            at     == call'.date
            last   == after[Len(after)]
        IN  /\ Len(after) = Len(before) + 1
            /\ SubSeq(after, 1, Len(before)) = before
            /\ last[2] = call'.entry
            /\ at.kind = "datetime" => last[1] = at.t
            /\ at.kind = "date" =>
                  /\ Day(last[1]) = at.day
                  /\ Min(last[1]) = 0 /\ Sec(last[1]) = 0 /\ Us(last[1]) = 0]_vars

\* a date-only append on top of an earlier entry, stamped midnight and not now
C1_Witness ==
    /\ LoggedIn
    /\ call.op = "add_journal_entry"
    /\ call.date = DateOnly(MaxDay)
    /\ Len(Entries(current_user)) >= 2
    /\ Entries(current_user)[Len(Entries(current_user))]
          = <<MaxDay * TicksPerDay, call.entry>>
    /\ now # MaxDay * TicksPerDay

\* C2: add_journal_entry never fails its caller: when the write fails the call
\* returns normally, the new entry is in the in-memory list, and the write is
\* not tried again (the file is as the one failed attempt left it).
C2_SaveFailureSwallowed ==
    [][(IsAddStep /\ io' # "write_ok") =>
        /\ ~raised'
        /\ Len(Entries(current_user')) = Len(Entries(current_user)) + 1
        /\ IsPrefix(Entries(current_user), Entries(current_user'))
        /\ Entries(current_user')[Len(Entries(current_user'))][2] = call'.entry
        /\ io' = "open_fails" => files' = files
        /\ io' = "write_fails" => FileOf(current_user)' = Malformed]_vars

C2_Witness ==
    /\ LoggedIn
    /\ call.op = "add_journal_entry"
    /\ io = "write_fails"
    /\ ~raised
    /\ Len(Entries(current_user)) >= 2
    /\ Entries(current_user)[Len(Entries(current_user))][2] = call.entry
    /\ FileOf(current_user) = Malformed

\* the file holds the first k entries of the list, for some k (no file: none)
IsSnapshot(file, entries) ==
    \/ file = Missing
    \/ \E k \in 0..Len(entries) : file = JsonList(dump_data(SubSeq(entries, 1, k)))

\* C3 as claimed: in any sequence of appends and write failures the file stays
\* a prefix-or-equal snapshot of the in-memory list.
C3_Claimed_SnapshotKept ==
    [][(IsAddStep /\ IsSnapshot(FileOf(current_user), Entries(current_user))) =>
        IsSnapshot(FileOf(current_user)', Entries(current_user'))]_vars

\* C3: after an add_journal_entry whose write succeeds the file is exactly the
\* whole in-memory list, one {date, content} record per entry in append order;
\* a write that fails leaves the file as it was or, when it fails after the
\* file was opened, cut off, so a file that was a prefix-or-equal snapshot of
\* the list is afterwards a snapshot or cut off.
C3_FileFollowsStore ==
    [][IsAddStep =>
        /\ io' = "write_ok" =>
              /\ FileOf(current_user)' = JsonList(dump_data(Entries(current_user')))
              /\ Len(FileOf(current_user)'.items) = Len(Entries(current_user'))
              /\ \A i \in 1..Len(Entries(current_user')) :
                    /\ FileOf(current_user)'.items[i].content
                          = Entries(current_user')[i][2]
                    /\ fromisoformat(FileOf(current_user)'.items[i].date).t
                          = Entries(current_user')[i][1]
        /\ IsSnapshot(FileOf(current_user), Entries(current_user)) =>
              \/ IsSnapshot(FileOf(current_user)', Entries(current_user'))
              \/ (io' = "write_fails" /\ FileOf(current_user)' = Malformed)]_vars

\* a successful write of two entries that are not in chronological order
C3_Witness ==
    /\ LoggedIn
    /\ call.op = "add_journal_entry"
    /\ io = "write_ok"
    /\ Len(Entries(current_user)) = 2
    /\ Entries(current_user)[1][1] > Entries(current_user)[2][1]
    /\ FileOf(current_user) = JsonList(dump_data(Entries(current_user)))
    /\ last_saved[current_user.journal_file].damaged = FALSE

\* C4: saving the entries to the file format and loading that file into a new
\* store gives the same (content, timestamp to the minute) pairs in the same
\* order.
C4_RoundTrip ==
    LoggedIn =>
        LET saved  == save_journals(Entries(current_user), Missing, "write_ok").file
            loaded == load_journals(saved, TRUE, now).entries
        IN  ToMinute(loaded) = ToMinute(Entries(current_user))

\* a store of two entries, one with microseconds and one without, whose file
\* has been written and reads back
C4_Witness ==
    /\ LoggedIn
    /\ Len(Entries(current_user)) = 2
    /\ \E i, j \in 1..2 : /\ Us(Entries(current_user)[i][1]) # 0
                          /\ Us(Entries(current_user)[j][1]) = 0
                          /\ Min(Entries(current_user)[j][1]) # 0
    /\ Entries(current_user)[1][2] # Entries(current_user)[2][2]
    /\ FileOf(current_user) = JsonList(dump_data(Entries(current_user)))
    /\ ToMinute(load_journals(FileOf(current_user), TRUE, now).entries)
          = ToMinute(Entries(current_user))

\* the file is a list of objects / holds something else
AllObjects(file) ==
    file.kind = "list" /\ \A i \in 1..Len(file.items) : IsObject(file.items[i])
Corrupt(file) ==
    \/ file.kind \in {"malformed", "scalar"}
    \/ file.kind = "list" /\ \E i \in 1..Len(file.items) : ~IsObject(file.items[i])

\* C6: loading a file whose records are all objects gives one entry per
\* record, in file order; a record with a parseable timestamp keeps it and its
\* content, a record with a missing or unparseable one keeps its content and
\* gets the current time.
C6_BadTimestampFallsBack ==
    [][(IsLoginStep /\ io' = "read_ok" /\ AllObjects(FileOf(current_user'))) =>
        LET items  == FileOf(current_user').items
            loaded == Entries(current_user')
        IN  /\ ~raised'
            /\ Len(loaded) = Len(items)
            /\ \A i \in 1..Len(items) :
                  /\ "content" \in DOMAIN items[i] => loaded[i][2] = items[i].content
                  /\ IF "date" \in DOMAIN items[i] /\ fromisoformat(items[i].date).ok
                     THEN loaded[i][1] = fromisoformat(items[i].date).t
                     ELSE loaded[i][1] = now]_vars

\* a record without a timestamp, loaded before a record with one
C6_Witness ==
    /\ LoggedIn
    /\ call.op = "do_login"
    /\ io = "read_ok"
    /\ FileOf(current_user) = JsonList(<<NoDateItem, GoodItem>>)
    /\ Entries(current_user) = <<<<now, <<"y">>>>, <<datetime(0, 1, 0, 0), <<"x">>>>>>

\* C7: constructing a session never raises because of the file: a missing
\* file gives an empty store, and so does a corrupt one (bytes that are not
\* JSON, or JSON that is not a list of objects, even after valid records).
C7_CorruptFileEmptyStore ==
    [][IsLoginStep =>
        /\ ~raised'
        /\ current_user' # None
        /\ (io' = "absent" \/ io' = "read_fails" \/ Corrupt(FileOf(current_user')))
              => Entries(current_user') = <<>>]_vars

\* a valid record followed by an element that is not an object
C7_Witness ==
    /\ LoggedIn
    /\ call.op = "do_login"
    /\ io = "read_ok"
    /\ ~raised
    /\ FileOf(current_user) = JsonList(<<GoodItem, NonObject>>)
    /\ Entries(current_user) = <<>>

\* C5 as claimed: every entry persisted by a successful write is in the store
\* that a later login with the same display name creates (stated for a login
\* that can read the file).
C5_Claimed_AlwaysPersist ==
    [][(IsLoginStep /\ current_user' # None /\ io' # "read_fails") =>
        IsSubseq(ContentsOf(last_saved[current_user'.journal_file].items),
                 ContentsOf(Entries(current_user')))]_vars

\* C5: the store that a login creates holds, with the same content and in the
\* same order, every entry the file held after its last successful write,
\* unless a later write failed after the file was opened (the file is cut off
\* and the store starts empty) or the login cannot read the file; and no
\* operation of a session removes or reorders an entry of the store.
C5_PersistUnlessDamaged ==
    [][/\ (/\ IsLoginStep /\ current_user' # None
           /\ io' # "read_fails"
           /\ ~last_saved[current_user'.journal_file].damaged) =>
              IsSubseq(ContentsOf(last_saved[current_user'.journal_file].items),
                       ContentsOf(Entries(current_user')))
       /\ (LoggedIn /\ current_user' # None) =>
              IsPrefix(Entries(current_user), Entries(current_user'))]_vars

\* the second session starts with the two entries the first one wrote
C5_Witness ==
    /\ LoggedIn
    /\ sessions = 2
    /\ call.op = "do_login"
    /\ io = "read_ok"
    /\ Len(Entries(current_user)) = 2
    /\ Entries(current_user)[1][2] # Entries(current_user)[2][2]
    /\ last_saved[current_user.journal_file]
          = [items |-> Entries(current_user), damaged |-> FALSE]

CallerOps == {"get_journal_entries", "caller_sort", "caller_remove", "caller_add",
              "group_by_date"}

\* C8: get_journal_entries() returns a copy: the caller's list has the store's
\* items, and sorting it, adding to it or removing from it (as the Passed
\* Journey view does when it sorts by timestamp) changes neither the store's
\* list nor the file, so that the next write is still in append order.
C8_ReturnsCopy ==
    [][/\ call'.op \in CallerOps =>
              /\ Entries(current_user') = Entries(current_user)
              /\ files' = files
       /\ call'.op = "get_journal_entries" =>
              caller_list'.items = Entries(current_user)
       /\ (IsAddStep /\ io' = "write_ok") =>
              /\ IsPrefix(Entries(current_user), Entries(current_user'))
              /\ FileOf(current_user)' = JsonList(dump_data(Entries(current_user')))]_vars

\* the caller has sorted its list; the store keeps the append order
C8_Witness ==
    /\ LoggedIn
    /\ call.op = "caller_sort"
    /\ Len(Entries(current_user)) = 2
    /\ Entries(current_user)[1][1] > Entries(current_user)[2][1]
    /\ caller_list.items = sort_by_dt(Entries(current_user))
    /\ caller_list.items # Entries(current_user)

\* C9: check_journal_password(candidate) is true exactly when the candidate is
\* the string last given to set_journal_password (which the password field
\* holds from then on), false for every other string, the empty one and a
\* case variant included; the check changes no state.
C9_ExactMatch ==
    [][/\ (LoggedIn /\ call'.op = "set_journal_password") =>
              current_user'.journal_password = call'.pwd
       /\ (LoggedIn /\ current_user' # None /\ call'.op # "set_journal_password") =>
              current_user'.journal_password = current_user.journal_password
       /\ (LoggedIn /\ call'.op = "check_journal_password") =>
              /\ call'.result = (call'.pwd = current_user.journal_password)
              /\ current_user' = current_user
              /\ files' = files]_vars

\* the secret is "A"; the case variant "a" is refused
C9_Witness ==
    /\ LoggedIn
    /\ call.op = "check_journal_password"
    /\ current_user.journal_password = <<"A">>
    /\ call.pwd = <<"a">>
    /\ call.result = FALSE

\* a partner name was typed into the form: not blank, not the placeholder
PartnerSupplied(raw) == strip(raw) # <<>> /\ strip(raw) # PartnerPlaceholder

\* C10: after a successful login the journal secret is the session's partner
\* name when one was supplied, and "mine123" when the partner field was left
\* blank or still holds its placeholder.
C10_LoginSecret ==
    [][(IsLoginStep /\ current_user' # None) =>
        /\ PartnerSupplied(call'.partner) =>
              /\ current_user'.journal_password = current_user'.partner
              /\ current_user'.partner = strip(call'.partner)
        /\ ~PartnerSupplied(call'.partner) =>
              current_user'.journal_password = FallbackPassword]_vars

\* a login with a blank partner field
C10_Witness ==
    /\ LoggedIn
    /\ call.op = "do_login"
    /\ call.partner = <<" ">>
    /\ current_user.partner = <<>>
    /\ current_user.journal_password = FallbackPassword

-----------------------------------------------------------------------------
(* Properties of the window *)

\* the step is the password dialog of the healing journal, answered with a text
IsGateStep ==
    /\ screen = "home"
    /\ now' = now
    /\ call'.op = "_open_healing_journal"
    /\ call'.pwd # None

\* C11: the healing-journal screen opens exactly when the candidate typed
\* passes check_journal_password against the session's current secret (the
\* partner name, or "mine123" when none was supplied); any other candidate is
\* answered with a denial, no journal screen and no entry appended.
C11_Claimed_GateIsSecretCheck ==
    [][IsGateStep =>
        LET passes == check_journal_password(current_user, call'.pwd.text)
        IN  /\ (screen' = "journal") <=> passes
            /\ ~passes =>
                  /\ call'.answer \in {"no_partner", "wrong_password"}
                  /\ current_user' = current_user
                  /\ files' = files]_vars

\* no partner name was given at login, the secret is "mine123", and the
\* candidate "mine123" is turned away
C11_Divergence ==
    /\ screen = "home"
    /\ call.op = "_open_healing_journal"
    /\ call.pwd = Typed(FallbackPassword)
    /\ current_user.partner = <<>>
    /\ check_journal_password(current_user, call.pwd.text)
    /\ call.answer = "no_partner"

\* a text with nothing but white space in it
IsBlank(text) == \A i \in DOMAIN text : text[i] = Space

\* C16: a login whose display name is blank or is the untouched placeholder
\* creates no session and leaves the window on the login screen; saving a
\* journal text that is blank after trimming appends no entry and writes
\* nothing to the file.
C16_BlankInputRejected ==
    [][/\ (screen = "login" /\ now' = now /\ call'.op = "do_login"
            /\ (IsBlank(call'.username) \/ call'.username = UsernamePlaceholder)) =>
              /\ current_user' = None
              /\ screen' = "login"
              /\ sessions' = sessions
              /\ files' = files
       /\ (screen = "journal" /\ now' = now /\ call'.op = "save_entry"
            /\ IsBlank(call'.text)) =>
              /\ current_user' = current_user
              /\ files' = files
              /\ io' = io
              /\ call'.shown = "Kosong"]_vars

\* the journal is open and a text of one space was saved: nothing was stored
C16_Witness ==
    /\ screen = "journal"
    /\ call.op = "save_entry"
    /\ call.text = <<" ">>
    /\ call.shown = "Kosong"
    /\ Entries(current_user) = <<>>
    /\ FileOf(current_user) = Missing

-----------------------------------------------------------------------------
(* Properties of the recent-action stack *)

\* the step is a call of StackManager.pop
IsPopStep == call'.op = "pop" /\ now' = now

\* C12: the stack is LIFO after any sequence of pushes and pops: a pop right
\* after a push would return the item pushed and leave the stack as it was
\* before the push; pop on a stack that is s with x pushed on it returns x and
\* leaves s; pop on the empty stack returns None, raises nothing and leaves
\* the stack empty.
C12_Lifo ==
    [][/\ (call'.op = "push" /\ stack' # stack) =>
              pop(stack') = [stack |-> stack, result |-> call'.item]
       /\ IsPopStep =>
              /\ raised' = FALSE
              /\ stack = <<>> => call'.result = None /\ stack' = <<>>
              /\ \A x \in StackItems :
                    stack = push(stack', x) <=> (stack # <<>> /\ call'.result = x)]_vars

\* a pop found the stack empty
C12_Witness ==
    /\ stack = <<>>
    /\ call.op = "pop"
    /\ call.result = None

RECURSIVE successive_pops(_)
\* the values that popping until the stack is empty returns, in that order
successive_pops(s) ==
    IF s = <<>> THEN <<>> ELSE <<pop(s).result>> \o successive_pops(pop(s).stack)

\* C13: list_all() returns the items most recently pushed first, in the order
\* in which successive pops would return them.
C13_Claimed_ListAllNewestFirst ==
    call.op = "list_all" => call.result = successive_pops(stack)

\* a was pushed before b; list_all() returns a before b, pops return b before a
C13_Divergence ==
    /\ call.op = "list_all"
    /\ stack = <<[item |-> "a"], [item |-> "b"]>>
    /\ call.result = <<[item |-> "a"], [item |-> "b"]>>
    /\ successive_pops(stack) = <<[item |-> "b"], [item |-> "a"]>>

\* the step is a mood saved in the mood tracker
IsMoodStep ==
    /\ screen = "mood"
    /\ now' = now
    /\ call'.op = "save_mood"

\* C19: every mood save pushes exactly one record on the stack and appends
\* exactly one journal entry, stamped with today's date at the minute chosen,
\* seconds zero, or with the current time when the value chosen is no valid
\* time; no step of a process takes anything off the stack or rewrites it, so
\* its size never decreases before the process ends.
C19_MoodPushesAndAppends ==
    [][/\ IsMoodStep =>
             LET new == Entries(current_user')
                 e   == new[Len(new)]
                 m   == call'.minute
             IN  /\ Len(stack') = Len(stack) + 1
                 /\ new = Append(Entries(current_user), e)
                 /\ stack'[Len(stack')].date = e[1]
                 /\ e[2].mood = call'.mood
                 /\ IF m.ok /\ m.n >= 0 /\ m.n < MinPerDay
                    THEN /\ Day(e[1]) = Day(now)
                         /\ Min(e[1]) = m.n
                         /\ Sec(e[1]) = 0
                         /\ Us(e[1]) = 0
                    ELSE e[1] = now
       /\ call'.op # "exit" => IsPrefix(stack, stack')]_vars

\* a mood was saved with a valid minute after an affirmation was saved: the
\* stack holds both, the journal the mood at minute 1 of the day
C19_Witness ==
    /\ call.op = "save_mood"
    /\ call.minute = SpinInt(1)
    /\ Len(stack) = 2
    /\ stack[2].date = datetime(Day(now), 1, 0, 0)
    /\ Len(Entries(current_user)) = 1
    /\ Entries(current_user)[1][1] = datetime(Day(now), 1, 0, 0)
    /\ "saved_aff" \in DOMAIN stack[1]

-----------------------------------------------------------------------------
(* Properties of the affirmation providers *)

\* the step is a call of the daily provider's get_affirmation
IsDailyStep ==
    /\ now' = now
    /\ call'.op = "get_affirmation"
    /\ call'.provider = "daily"

\* C14: the daily affirmation is a function of the calendar day alone: for the
\* list of length N and the ordinal day d of the call, the message returned is
\* the one at index d mod N, which lies in 0..N-1 (on day 1 and on the last
\* day too); a call on the same day as the daily call before it returns the
\* same message; no call changes the list.
C14_DailyByDayOnly ==
    [][/\ affirmations' = affirmations
       /\ IsDailyStep =>
             LET N == Len(affirmations)
                 d == toordinal(now)
             IN  /\ d % N \in 0..(N - 1)
                 /\ call'.today = d
                 /\ call'.result = Affirmations[(d % N) + 1]
                 /\ (call.op = "get_affirmation" /\ call.provider = "daily"
                        /\ call.today = d) => call'.result = call.result]_vars

\* the daily affirmation of the last day, asked for late on that day
C14_Witness ==
    /\ call.op = "get_affirmation"
    /\ call.provider = "daily"
    /\ call.today = MaxOrdinal
    /\ now = datetime(MaxOrdinal - 1, MinPerDay - 1, 0, 0)
    /\ call.result = Affirmations[NumAffirmations]

-----------------------------------------------------------------------------
(* Properties of the questionnaires *)

\* the number of yes answers of a vector of answers
YesCount(answers) == Cardinality({i \in DOMAIN answers : answers[i] = 1})

\* the step is an answer given in the red-flag check
IsRedFlagStep ==
    /\ screen = "red_flag"
    /\ now' = now
    /\ call'.op = "red_flag_answer"

\* C15: the red-flag check shows a result only with the 5th answer since the
\* check was opened, and for each of the 32 answer vectors the level shown
\* depends only on the number of yes answers: none is safe ("Hijau"), 1 or 2
\* is caution ("Kuning"), 3 or more is risk ("Merah").
C15_RedFlagTiers ==
    [][IsRedFlagStep =>
        LET answers == Append(red_flag.answers, call'.ans)
            yes     == YesCount(answers)
        IN  /\ Len(red_flag.answers) = red_flag.idx
            /\ (call'.shown = "result") <=> (Len(answers) = 5)
            /\ call'.shown = "result" =>
                  /\ call'.answers = answers
                  /\ call'.count = yes
                  /\ yes = 0 => call'.level = "Hijau (Aman)"
                  /\ yes \in {1, 2} => call'.level = "Kuning (Waspada)"
                  /\ yes >= 3 => call'.level = "Merah (Berisiko)"]_vars

\* the answers yes, yes, no, no, no: two yes answers are caution
C15_Witness ==
    /\ screen = "home"
    /\ call.op = "red_flag_answer"
    /\ call.shown = "result"
    /\ call.answers = <<1, 1, 0, 0, 0>>
    /\ call.level = "Kuning (Waspada)"

\* the step is an answer given in the relationship scan
IsScanStep ==
    /\ screen = "scan"
    /\ now' = now
    /\ call'.op = "submit_answer"

\* the answers since the scan was opened, the one of this step included
Answered == scan.current_idx + 1

\* the answers since the last score, the one of this step included
Batch == Append(scan.set_answers, IF call'.ans THEN 1 ELSE 0)

\* C17: in the relationship scan a score is shown with every 10th answer and
\* with no other; it is the number of yes answers among the 10 answers given
\* since the score before it (or since the scan opened), so it lies in 0..10;
\* the scan ends with the 50th answer at the latest, after 5 batches.
C17_ScorePerBatch ==
    [][IsScanStep =>
        /\ Len(scan.set_answers) = scan.current_idx % 10
        /\ (call'.shown = "score") <=> (Answered % 10 = 0)
        /\ call'.shown = "score" =>
              /\ Len(Batch) = 10
              /\ call'.score = YesCount(Batch)
              /\ call'.score \in 0..10
              /\ call'.of = 10
        /\ Answered <= 50
        /\ Answered = 50 => screen' = "home"
        /\ screen' = "scan" =>
              /\ scan'.current_idx = Answered
              /\ scan'.set_answers = IF call'.shown = "score" THEN <<>> ELSE Batch]_vars

\* the second batch of a scan was scored 3 after a first batch scored 10
C17_Witness ==
    /\ screen = "scan"
    /\ scan.current_idx = 20
    /\ call.op = "submit_answer"
    /\ call.shown = "score"
    /\ call.score = 3
    /\ Len(Entries(current_user)) = 2
    /\ Entries(current_user)[1][2].score = 10

\* C18: the scan's question sequence has exactly 50 items; item i (from 0) is
\* question i mod B of the base list of B = 49 questions, with the partner's
\* name put in; so the 50th question is the 1st again and no other question
\* comes twice.
C18_FiftyCycled ==
    scan # None =>
        LET qs == scan.questions
            B  == Len(base_questions)
        IN  /\ Len(qs) = 50
            /\ B = 49
            /\ \A i \in 0..49 :
                  qs[i + 1] = _sub_partner(current_user, base_questions[(i % B) + 1])
            /\ qs[50] = qs[1]
            /\ \A i, j \in 1..50 : (i < j /\ qs[i] = qs[j]) => (i = 1 /\ j = 50)

\* a scan is open for a session with partner "A": its 50th question is the
\* first of the base list, with 'A' for "pasanganmu"
C18_Witness ==
    /\ screen = "scan"
    /\ current_user.partner = <<"A">>
    /\ scan.questions[50] = [n |-> 1, word |-> <<"'", "A", "'">>]

\* C20: each completed batch of the relationship scan appends exactly one
\* journal entry, stamped with the current time and holding the batch's score
\* and its 10 questions, each with its answer, in the order asked; the entry is
\* appended before the score is shown and before the choice to continue is
\* offered; an answer that does not complete a batch, and leaving the scan,
\* append nothing; one scan appends at most 5 entries.
C20_OneEntryPerBatch ==
    [][/\ IsScanStep =>
             IF Answered % 10 = 0
             THEN LET new == Entries(current_user')
                      e   == new[Len(new)]
                  IN  /\ new = Append(Entries(current_user), e)
                      /\ e[1] = now
                      /\ e[2].score = YesCount(Batch)
                      /\ Len(e[2].lines) = 10
                      /\ \A k \in 1..10 :
                            e[2].lines[k] =
                                [q |-> scan.questions[Answered - 10 + k],
                                 a |-> IF Batch[k] = 1 THEN "Ya" ELSE "Tidak"]
                      /\ call'.events[1] = "add_journal_entry"
                      /\ (Answered < 50) <=>
                            (call'.events = <<"add_journal_entry", "showinfo", "askyesno">>)
                      /\ Len(new) - scan.entries_before = Answered \div 10
                      /\ Len(new) - scan.entries_before <= 5
             ELSE /\ current_user' = current_user
                  /\ files' = files
       /\ (screen = "scan" /\ now' = now /\ call'.op = "_build_home_screen") =>
             /\ current_user' = current_user
             /\ files' = files]_vars

\* the fifth batch of a scan was completed: five entries, no choice offered
C20_Witness ==
    /\ screen = "home"
    /\ call.op = "submit_answer"
    /\ call.events = <<"add_journal_entry", "showinfo">>
    /\ Len(Entries(current_user)) = 5
    /\ Entries(current_user)[5][2].lines[10].q.n = 1


\* ---- C21 ----
IsGroupStep == call'.op = "group_by_date" /\ now' = now

\* the entries of a sequence that carry the timestamp t, in their order
AtTime(l, t) == SelectSeq(l, LAMBDA e : e[1] = t)

\* how many groups hold an entry with the timestamp t
GroupsHolding(ordered, t) ==
    Cardinality({j \in 1..Len(ordered) : AtTime(ordered[j][2], t) # <<>>})

RECURSIVE GroupSizes(_)
GroupSizes(ordered) ==
    IF ordered = <<>> THEN 0
    ELSE Len(ordered[Len(ordered)][2]) + GroupSizes(SubSeq(ordered, 1, Len(ordered) - 1))

Timestamps(l) == {l[i][1] : i \in 1..Len(l)}

\* C21: the Passed Journey grouping is a partition of the store: the groups
\* together hold as many entries as the store, the entries of one timestamp
\* sit in exactly one group and are there exactly the store's entries of that
\* timestamp in append order; no group is empty and a group's key is the
\* printed calendar date of each of its entries; the keys descend in newest
\* mode and ascend in oldest mode; inside a group the timestamps ascend in
\* both modes.
C21_GroupsPartitionStore ==
    [][IsGroupStep =>
        LET ordered == call'.ordered
            store   == Entries(current_user)
        IN  /\ GroupSizes(ordered) = Len(store)
            /\ \A t \in Timestamps(store) :
                    /\ GroupsHolding(ordered, t) = 1
                    /\ \A j \in 1..Len(ordered) :
                           AtTime(ordered[j][2], t) \in {<<>>, AtTime(store, t)}
            /\ \A j \in 1..Len(ordered) :
                    /\ ordered[j][2] # <<>>
                    /\ \A i \in 1..Len(ordered[j][2]) :
                           /\ ordered[j][1] = <<Day(ordered[j][2][i][1])>>
                           /\ ordered[j][2][i][1] \in Timestamps(store)
                    /\ \A i \in 1..(Len(ordered[j][2]) - 1) :
                           ordered[j][2][i][1] <= ordered[j][2][i + 1][1]
            /\ \A j \in 1..(Len(ordered) - 1) :
                    IF call'.newest THEN ordered[j][1][1] > ordered[j + 1][1][1]
                    ELSE ordered[j][1][1] < ordered[j + 1][1][1]
    ]_vars

\* a newest-first grouping was computed of a store that is not in timestamp
\* order, spans two dates and holds two different entries of one timestamp
C21_Witness_Newest ==
    /\ call.op = "group_by_date" /\ call.newest
    /\ LoggedIn
    /\ Len(call.ordered) >= 2
    /\ LET store == Entries(current_user)
       IN  /\ \E i \in 1..(Len(store) - 1) : store[i][1] > store[i + 1][1]
           /\ \E i, k \in 1..Len(store) :
                  i < k /\ store[i][1] = store[k][1] /\ store[i][2] # store[k][2]

\* an oldest-first grouping of two dates was computed
C21_Witness_Oldest ==
    /\ call.op = "group_by_date" /\ ~call.newest
    /\ LoggedIn
    /\ Len(call.ordered) >= 2
    /\ Len(call.ordered[1][2]) >= 2


\* ---- C22 ----
\* no write of this file has succeeded yet
NoWriteYet == last_saved[current_user.journal_file].items = <<>>

\* the entry an append step adds
NewEntry == <<normalize_date(call'.date, now), call'.entry>>

\* C22 as claimed: after a login that found a corrupt file and started with an
\* empty store, the first append whose write succeeds leaves the file holding
\* exactly the one new entry, and the file stays as it was only in steps that
\* are not appends.
C22_Claimed_FirstWriteHoldsOneEntry ==
    [][/\ (IsAddStep /\ io' = "write_ok" /\ NoWriteYet) =>
              FileOf(current_user)' = JsonList(dump_data(<<NewEntry>>))
       /\ (LoggedIn /\ current_user' # None /\ FileOf(current_user)' = FileOf(current_user))
              => ~IsAddStep]_vars

\* C22: a login that finds a corrupt file starts with an empty store and
\* leaves the file as it is.  An append whose write succeeds replaces the file
\* by the whole in-memory store, which is every entry appended since that
\* login: exactly the one new entry when it is the first append, more when
\* earlier appends failed to write; nothing of the corrupt content stays.  An
\* append whose file cannot be opened leaves the corrupt file as it is, an
\* append whose write fails after opening leaves it cut off, and no other
\* step changes the file.
C22_FirstWriteReplacesCorruptFile ==
    [][/\ IsLoginStep =>
              /\ Corrupt(FileOf(current_user'))
              /\ Entries(current_user') = <<>>
              /\ files' = files
       /\ IsAddStep =>
              /\ Entries(current_user') = Append(Entries(current_user), NewEntry)
              /\ io' = "write_ok" =>
                    /\ FileOf(current_user)' = JsonList(dump_data(Entries(current_user')))
                    /\ AllObjects(FileOf(current_user)')
                    /\ FileOf(current_user)' # FileOf(current_user)
                    /\ Entries(current_user) = <<>> =>
                          FileOf(current_user)' = JsonList(dump_data(<<NewEntry>>))
                    /\ NoWriteYet => Len(FileOf(current_user)'.items)
                                        = Len(Entries(current_user)) + 1
              /\ io' = "open_fails"  => FileOf(current_user)' = FileOf(current_user)
              /\ io' = "write_fails" => FileOf(current_user)' = Malformed
       /\ (LoggedIn /\ ~IsAddStep) => files' = files]_vars

\* the first append could not open the file; the second one wrote, and the
\* file now holds both entries and nothing else
C22_Witness ==
    /\ LoggedIn
    /\ call.op = "add_journal_entry"
    /\ io = "write_ok"
    /\ Len(Entries(current_user)) = 2
    /\ last_saved[current_user.journal_file].items = Entries(current_user)
    /\ FileOf(current_user) = JsonList(dump_data(Entries(current_user)))
    /\ \A i \in 1..2 : FileOf(current_user).items[i].content = <<"y">>

\* the first append wrote: the file holds the one new entry
C22_Witness_OneEntry ==
    /\ LoggedIn
    /\ call.op = "add_journal_entry"
    /\ io = "write_ok"
    /\ Len(Entries(current_user)) = 1
    /\ Entries(current_user) = <<<<datetime(0, 0, 0, 0), <<"y">>>>>>
    /\ FileOf(current_user) = JsonList(<<[date |-> <<0, 0, 0>>, content |-> <<"y">>]>>)

====
